---- MODULE Spec2Model ----
(***************************************************************************)
(* Rescue Chef: the client-side application state machine of App.tsx       *)
(* (src/unnamed/part_000) with the service calls it awaits                 *)
(* (src/unnamed/part_001) and the two localStorage entries it keeps.       *)
(*                                                                         *)
(* Conventions                                                             *)
(*  - `state` is the React AppState object; the other useState cells that  *)
(*    decide behaviour are `loading` and `currentStepIndex`.               *)
(*  - A nullable slot is a sequence of length at most one: << >> is null.  *)
(*  - A JS value that may be missing from a service response is a record   *)
(*    [t, v] whose tag t is "array", "number", "string", "score" or        *)
(*    "undefined"; "undefined" also stands for a field that is absent.     *)
(*  - Numbers (savings_dh, wasteSaved) are fixed point: the integer n      *)
(*    stands for n / Scale, so that a fractional amount and what           *)
(*    toString / parseInt do to it can be computed.                        *)
(*  - The text inputs (inputQuery, editImagePrompt, newIngredientName) and *)
(*    the isEditingImage / isEditingIngredients toggles are user-owned:    *)
(*    the user can give them any value before a click, so a handler takes  *)
(*    the value it reads as an input.                                      *)
(*  - Every action is a whole handler together with the render and the     *)
(*    persistence effect (part_000:53-67) that follow the state change.    *)
(*  - The loading overlay is presentation: the only clicks `loading`       *)
(*    blocks are those of buttons whose `disabled` reads it.               *)
(*  - handleReadAloud, toggleTheme and the toast change nothing modelled   *)
(*    here and are left out.                                               *)
(***************************************************************************)
EXTENDS Integers, Sequences, FiniteSets, TLC

VARIABLES
  state,             \* AppState                        (part_000:8-28)
  loading,           \* the global loading flag         (part_000:32)
  currentStepIndex,  \* guided-cooking step index       (part_000:34)
  genReqs,           \* generateRecipeAndHacks calls awaiting a response
  imgReqs,           \* recipe ids whose background image is pending
  editReqs,          \* editRecipeImage calls awaiting a response (closures)
  scanReqs,          \* scanIngredients calls awaiting a response
  nextId,            \* source of the ids Math.random() hands out
  finishes,          \* number of completed finishCooking calls
  lsState,           \* localStorage 'rescue_chef_state' (<< >> = no entry)
  lsSavings,         \* localStorage 'totalSavings'      (<< >> = no entry)
  storageFull,       \* localStorage.setItem throws a quota error
  crashed,           \* a render threw: React unmounted the tree
  lastAction,        \* the step just taken: its name and input (history)
  raw,               \* the value last given to normalizeScore (<< >> = none)
  score,             \* what normalizeScore returned for it
  viewed,            \* the recipe last given to a recipe view (<< >> = none)
  shown,             \* what the view derived from it
  timer              \* the useState cells of the Timer widget and its interval

vars == <<state, loading, currentStepIndex, genReqs, imgReqs, editReqs,
          scanReqs, nextId, finishes, lsState, lsSavings, storageFull, crashed,
          lastAction, raw, score, viewed, shown, timer>>

reqs == <<genReqs, imgReqs, editReqs, scanReqs>>

-----------------------------------------------------------------------------
(* Bounds                                                                  *)

MaxRecipes == 2          \* recipes generated in a run of Spec
MaxBodyRecipes == 1      \* recipes generated in a run of SpecBodies
MaxFinishes == 1         \* finishCooking calls in a run
MaxStepIndex == 2        \* cap of the step index ("Next" on an empty recipe)
MaxPantry == 2           \* cap of the pantry list length
MaxEditReqs == 1         \* image edits in flight
MaxScanReqs == 1         \* pantry scans in flight
Scale == 2               \* fixed-point resolution: n stands for n / Scale

-----------------------------------------------------------------------------
(* Values                                                                  *)

Null == << >>
Some(x) == <<x>>

Arr(s) == [t |-> "array", v |-> s]
Num(n) == [t |-> "number", v |-> <<n>>]
Str(s) == [t |-> "string", v |-> <<s>>]
Undefined == [t |-> "undefined", v |-> << >>]

IsArray(x) == x.t = "array"

\* JS truthiness of a number-or-undefined value: undefined and 0 are falsy.
Truthy(x) == x.t = "number" /\ x.v[1] # 0

DefaultSavings == 5

EmptyImage == [kind |-> "empty", of |-> 0]
NullImage == [kind |-> "null", of |-> 0]
Illustration(id) == [kind |-> "illustration", of |-> id]
EditedImage(id) == [kind |-> "edited", of |-> id]

\* JS truthiness of an imageUrl: '' and null are falsy.
HasImage(img) == img.kind \notin {"empty", "null"}

Screens == {"LANDING", "RESULT", "SHOPPING", "COOKING", "COOKBOOK",
            "RECIPE_DETAIL", "SUCCESS"}

Modes == {"HACK", "SHOP", "null"}

SaveTypes == {"HACK_IT", "SHOP_IT"}

\* new Date().toLocaleDateString(): the clock does not move within a run
Today == "2026-01-01"

Cities == {"", "Rabat"}

IngredientNames == {"egg", "rice"}

\* values of the inputQuery text field
Queries == {"", "tajine"}

\* values of the editImagePrompt text field
Prompts == {"", "  ", "brighter "}

\* String.prototype.trim, on the texts above
Trim(text) ==
  CASE text = "  " -> ""
    [] text = "brighter " -> "brighter"
    [] OTHER -> text

\* (mutant) the prompt is not trimmed before the test
IsEmptyText(text) == text = ""

\* handleMagicEdit: !editImagePrompt.trim()
IsBlank(text) == Trim(text) = ""

-----------------------------------------------------------------------------
(* Recipes                                                                 *)

\* A substitution hack (types.ts SubstitutionHack), by the two fields read
Hack(effectiveness, risk) ==
  [effectiveness_score |-> effectiveness, safety_risk |-> risk]

GoodHack == Hack(80, "Low")

\* A safety score as the service sends it (see ScoreInputs below)
Score(kind, n, d) ==
  [t |-> "score", v |-> <<[kind |-> kind, value |-> [num |-> n, den |-> d]]>>]

\* JSON bodies the generation service may answer with (the `data` of
\* part_001:261)
FullBody ==
  [name |-> Str("Tajine"), description |-> Str("of leftovers"),
   ingredients |-> Arr(<<"egg", "salt">>), already_have |-> Arr(<<"egg">>),
   need_to_buy |-> Arr(<<"salt">>), steps |-> Arr(<<"s1", "s2">>),
   hacks |-> Arr(<<GoodHack>>), tips |-> Arr(<<"t1">>),
   safety_factors |-> Arr(<<"f1">>), safety_score |-> Score("number", 85, 1),
   difficulty |-> Str("Easy"), savings_dh |-> Num(3 * Scale + 1)]

NoStepsBody ==
  [FullBody EXCEPT !.steps = Arr(<< >>), !.savings_dh = Undefined]

ZeroSavingsBody ==
  [FullBody EXCEPT !.steps = Arr(<<"s1">>), !.hacks = Arr(<< >>),
                   !.need_to_buy = Arr(<< >>), !.savings_dh = Num(0)]

NegativeSavingsBody ==
  [FullBody EXCEPT !.steps = Arr(<<"s1">>), !.savings_dh = Num(-3 * Scale)]

\* Bodies in which an array field is absent
MissingHacksBody == [FullBody EXCEPT !.hacks = Undefined]

MissingNeedToBuyBody == [FullBody EXCEPT !.need_to_buy = Undefined]

MissingStepsBody == [FullBody EXCEPT !.steps = Undefined]

\* A well-formed body, and every kind of body
Payloads == {FullBody}

AnyBody == {FullBody, NoStepsBody, ZeroSavingsBody, NegativeSavingsBody}

\* A well-formed body and the bodies that miss an array
MalformedBodies ==
  {FullBody, MissingHacksBody, MissingNeedToBuyBody, MissingStepsBody}

\* generateRecipeAndHacks: data.hacks.every(h => h.effectiveness_score >= 70
\* && h.safety_risk !== 'High')
isHackRecommended(data) ==
  \A i \in 1..Len(data.hacks.v) :
    /\ data.hacks.v[i].effectiveness_score >= 70
    /\ data.hacks.v[i].safety_risk # "High"

\* generateRecipeAndHacks: { id: Math.random()..., ...data, isHackRecommended }
\* The random id is modelled as a token never handed out before.
GeneratedRecipe(id, data) ==
  [id |-> id, name |-> data.name, description |-> data.description,
   ingredients |-> data.ingredients, already_have |-> data.already_have,
   need_to_buy |-> data.need_to_buy, steps |-> data.steps,
   hacks |-> data.hacks, tips |-> data.tips,
   safety_factors |-> data.safety_factors,
   safety_score |-> data.safety_score, difficulty |-> data.difficulty,
   savings_dh |-> data.savings_dh,
   isHackRecommended |-> isHackRecommended(data),
   imageUrl |-> EmptyImage, type |-> "", savedDate |-> ""]

\* Array.isArray(x) ? x : []
ArrayOrEmpty(x) == IF IsArray(x) THEN x ELSE Arr(<< >>)

\* JS falsiness of a field value: undefined, '' and the number 0
Falsy(x) ==
  \/ x.t = "undefined"
  \/ x.t = "string" /\ x.v[1] = ""
  \/ x.t = "score" /\ x.v[1].kind = "number" /\ x.v[1].value.num = 0

\* x || fallback
OrElse(x, fallback) == IF Falsy(x) THEN fallback ELSE x

\* (mutant) the detail view defaults the arrays only
safeRecipeArraysOnly(recipe) ==
  [recipe EXCEPT
     !.hacks = ArrayOrEmpty(@),
     !.ingredients = ArrayOrEmpty(@),
     !.steps = ArrayOrEmpty(@),
     !.tips = ArrayOrEmpty(@),
     !.safety_factors = ArrayOrEmpty(@),
     !.already_have = ArrayOrEmpty(@),
     !.need_to_buy = ArrayOrEmpty(@)]

\* renderRecipeDetail: the defaulted copy of the recipe shown in the detail view
safeRecipe(recipe) ==
  [recipe EXCEPT
     !.hacks = ArrayOrEmpty(@),
     !.ingredients = ArrayOrEmpty(@),
     !.steps = ArrayOrEmpty(@),
     !.tips = ArrayOrEmpty(@),
     !.safety_factors = ArrayOrEmpty(@),
     !.already_have = ArrayOrEmpty(@),
     !.need_to_buy = ArrayOrEmpty(@),
     !.safety_score = OrElse(@, Score("number", 0, 1)),
     !.difficulty = OrElse(@, Str("Medium")),
     !.name = OrElse(@, Str("Untitled Recipe")),
     !.description = OrElse(@, Str("")),
     !.imageUrl = IF HasImage(@) THEN @ ELSE NullImage]

StepsLength(recipe) == Len(recipe.steps.v)

-----------------------------------------------------------------------------
(* AppState and its updaters                                               *)

FreshState ==
  [screen |-> "LANDING", city |-> "", currentRecipe |-> Null,
   selectedCookbookRecipe |-> Null, scannedIngredients |-> << >>,
   wasteSaved |-> 0, cookbook |-> << >>, selectedMode |-> "null"]

SetScreen(prev, screen) == [prev EXCEPT !.screen = screen]

\* renderCookbook: click on a saved recipe
\* (mutant) the selection holds the defaulted copy of the entry
SelectRecipeDefaulted(prev, recipe) ==
  [prev EXCEPT !.selectedCookbookRecipe = Some(safeRecipe(recipe)),
               !.screen = "RECIPE_DETAIL"]

SelectRecipe(prev, recipe) ==
  [prev EXCEPT !.selectedCookbookRecipe = Some(recipe),
               !.screen = "RECIPE_DETAIL"]

\* renderResult "Cook with Hacks": `recipe` is the render's currentRecipe
CookWithHacksState(prev, recipe) ==
  [prev EXCEPT !.currentRecipe = Some(recipe), !.selectedMode = "HACK",
               !.screen = "COOKING"]

\* renderResult "Go Shopping First"
\* (mutant) Go Shopping First does not record the mode
GoShoppingStateKeepingMode(prev, recipe) ==
  [prev EXCEPT !.currentRecipe = Some(recipe), !.screen = "SHOPPING"]

GoShoppingState(prev, recipe) ==
  [prev EXCEPT !.currentRecipe = Some(recipe), !.selectedMode = "SHOP",
               !.screen = "SHOPPING"]

\* renderRecipeDetail "Cook Now"
\* (mutant) Cook Now takes the mode from the save-type tag of the recipe
CookNowStateTaggedMode(prev, recipe) ==
  [prev EXCEPT !.currentRecipe = Some(recipe), !.screen = "COOKING",
               !.selectedMode = IF recipe.type = "HACK_IT" THEN "HACK" ELSE "SHOP"]

CookNowState(prev, recipe) ==
  [prev EXCEPT !.currentRecipe = Some(recipe), !.screen = "COOKING"]

\* (mutant) the mode of the previous recipe is left in place
ShowResultKeepingMode(prev, recipe) ==
  [prev EXCEPT !.currentRecipe = Some(recipe), !.screen = "RESULT"]

\* generateDecision, on success
ShowResult(prev, recipe) ==
  [prev EXCEPT !.currentRecipe = Some(recipe), !.screen = "RESULT",
               !.selectedMode = "null"]

\* (mutant) the id of the request is not compared
ApplyIllustrationUnguarded(prev, recipeId, illustration) ==
  IF prev.currentRecipe # Null
  THEN [prev EXCEPT !.currentRecipe[1].imageUrl = illustration]
  ELSE prev

\* generateDecision, the background image callback
ApplyIllustration(prev, recipeId, illustration) ==
  IF prev.currentRecipe # Null /\ prev.currentRecipe[1].id = recipeId
  THEN [prev EXCEPT !.currentRecipe[1].imageUrl = illustration]
  ELSE prev

\* (mutant) the lookup never finds the id
isRecipeSavedNever(st, recipeId) == FALSE

isRecipeSaved(st, recipeId) ==
  \E i \in 1..Len(st.cookbook) : st.cookbook[i].id = recipeId

recipeToSave(current, type, date) ==
  [current EXCEPT !.type = type, !.savedDate = date]

\* (mutant) the new entry goes last
AppendToCookbook(prev, recipe) ==
  [prev EXCEPT !.cookbook = Append(@, recipe)]

\* saveRecipe: the updater
PrependToCookbook(prev, recipe) ==
  [prev EXCEPT !.cookbook = <<recipe>> \o @]

\* (mutant) the recipe's amount is used whatever the mode
SavingsIgnoringMode(st) ==
  IF Truthy(st.currentRecipe[1].savings_dh)
  THEN st.currentRecipe[1].savings_dh.v[1]
  ELSE DefaultSavings * Scale

\* finishCooking: the savings increment
Savings(st) ==
  IF st.selectedMode = "HACK"
  THEN IF Truthy(st.currentRecipe[1].savings_dh)
       THEN st.currentRecipe[1].savings_dh.v[1]
       ELSE DefaultSavings * Scale
  ELSE DefaultSavings * Scale

Finished(prev, savings) ==
  [prev EXCEPT !.wasteSaved = @ + savings, !.screen = "SUCCESS"]

ActiveRecipe(st) ==
  IF st.selectedCookbookRecipe # Null THEN st.selectedCookbookRecipe
  ELSE st.currentRecipe

\* renderRecipeDetail, the back button
\* (mutant) a fresh recipe, when there is one, decides the target
BackTargetByCurrent(st) ==
  IF st.currentRecipe # Null THEN "RESULT" ELSE "COOKBOOK"

BackTarget(st) ==
  IF st.selectedCookbookRecipe # Null THEN "COOKBOOK" ELSE "RESULT"

\* (mutant) the edit reaches the displayed slot but not the cookbook
ApplyEditSlotOnly(prev, screen, updatedRecipe) ==
  IF screen = "RECIPE_DETAIL"
  THEN [prev EXCEPT !.selectedCookbookRecipe = Some(updatedRecipe)]
  ELSE [prev EXCEPT !.currentRecipe = Some(updatedRecipe)]

\* handleMagicEdit, on success: `screen` is the screen of the render the
\* handler was called from.
ApplyEdit(prev, screen, updatedRecipe) ==
  IF screen = "RECIPE_DETAIL"
  THEN [prev EXCEPT
          !.selectedCookbookRecipe = Some(updatedRecipe),
          !.cookbook = [i \in 1..Len(@) |->
                          IF @[i].id = updatedRecipe.id THEN updatedRecipe
                          ELSE @[i]]]
  ELSE [prev EXCEPT !.currentRecipe = Some(updatedRecipe)]

RECURSIVE Dedup(_)
\* Array.from(new Set(xs)): first occurrences, in order
Dedup(xs) ==
  IF xs = << >> THEN << >>
  ELSE LET init == Dedup(SubSeq(xs, 1, Len(xs) - 1))
           last == xs[Len(xs)]
       IN IF \E i \in 1..Len(init) : init[i] = last THEN init
          ELSE Append(init, last)

\* (mutant) the scan result replaces the pantry
MergeScanReplacing(prev, ingredients) ==
  [prev EXCEPT !.scannedIngredients = Dedup(ingredients)]

\* handleScan: the updater
MergeScan(prev, ingredients) ==
  [prev EXCEPT !.scannedIngredients = Dedup(@ \o ingredients)]

RemoveAt(xs, idx) ==
  [i \in 1..(Len(xs) - 1) |-> IF i < idx THEN xs[i] ELSE xs[i + 1]]

-----------------------------------------------------------------------------
(* Score normalizer                                                        *)

\* A score as the service sends it: a number, a numeric string or a string
\* with a percent sign.  Its value is the exact fraction num / den.
ScoreKinds == {"number", "string", "percent"}

Percent == 100           \* the 100 of normalizeScore
ScoreDen == 100          \* raw scores have their values in steps of 1 / ScoreDen
MaxWhole == 102          \* whole raw scores run from -MaxWhole to MaxWhole

ScoreValues ==
  {[num |-> n, den |-> ScoreDen] : n \in 1..(ScoreDen - 1)}
    \cup {[num |-> n * ScoreDen, den |-> ScoreDen] : n \in (-MaxWhole)..MaxWhole}
    \cup {[num |-> n * ScoreDen, den |-> ScoreDen] :
            n \in {150, 7250, 8500, 10000, 10001, 20000}}

ScoreInputs == {[kind |-> k, value |-> v] : k \in ScoreKinds, v \in ScoreValues}

\* parseFloat(String(raw).replace('%', '')): the value without its form
ParseScore(input) == input.value

\* Math.round of the fraction: floor(x + 1/2)
Round(x) == (2 * x.num + x.den) \div (2 * x.den)

\* (mutant) a fraction of one is not read as a share of 100
normalizeScoreUnscaled(input) ==
  LET num == ParseScore(input)
      reduced == IF num.num > Percent * num.den
                 THEN [num EXCEPT !.den = @ * Percent]
                 ELSE num
  IN Round(reduced)

normalizeScore(input) ==
  LET num == ParseScore(input)
      scaled == IF num.num > 0 /\ num.num < num.den
                THEN [num EXCEPT !.num = @ * Percent]
                ELSE num
      reduced == IF scaled.num > Percent * scaled.den
                 THEN [scaled EXCEPT !.den = @ * Percent]
                 ELSE scaled
  IN Round(reduced)

-----------------------------------------------------------------------------
(* Persistence                                                             *)

\* (mutant) the recipes are stored with their images
StripImageKeeping(slot) == slot

\* the persistence effect: { ...r, imageUrl: '' } on a slot or on the cookbook
StripImage(slot) ==
  [i \in 1..Len(slot) |-> [slot[i] EXCEPT !.imageUrl = EmptyImage]]

\* (mutant) the recipe slots are dropped, not only their images
stateToSaveDroppingSlots(st) ==
  [st EXCEPT !.cookbook = StripImage(@),
             !.currentRecipe = Null,
             !.selectedCookbookRecipe = Null]

\* the persistence effect's stateToSave
stateToSave(st) ==
  [st EXCEPT !.cookbook = StripImage(@),
             !.currentRecipe = StripImage(@),
             !.selectedCookbookRecipe = StripImage(@)]

\* a 'rescue_chef_state' entry that is not JSON
CorruptEntry == [unparseable |-> TRUE]

\* the useState initializer: JSON.parse(savedState) throws a SyntaxError
ParseThrows(savedState) ==
  savedState # Null /\ DOMAIN savedState[1] = {"unparseable"}

\* parseInt(n.toString(), 10) of the fixed-point number n: the integer part
ParseInt(n) ==
  IF n >= 0 THEN (n \div Scale) * Scale ELSE -(((-n) \div Scale) * Scale)

\* (mutant) the current recipe is not restored
LoadedStateWithoutRecipe(savedState, lifetimeSaved) ==
  LET baseState == IF savedState # Null
                   THEN [savedState[1] EXCEPT !.currentRecipe = Null]
                   ELSE FreshState
  IN IF lifetimeSaved # Null
     THEN [baseState EXCEPT !.wasteSaved = ParseInt(lifetimeSaved[1])]
     ELSE baseState

\* the useState initializer
LoadedState(savedState, lifetimeSaved) ==
  LET baseState == IF savedState # Null THEN savedState[1] ELSE FreshState
  IN IF lifetimeSaved # Null
     THEN [baseState EXCEPT !.wasteSaved = ParseInt(lifetimeSaved[1])]
     ELSE baseState

-----------------------------------------------------------------------------
(* Rendering                                                               *)

\* A render throws a TypeError when it dereferences a missing array.
RenderThrows(st, stepIndex) ==
  /\ st.currentRecipe # Null
  /\ LET recipe == st.currentRecipe[1]
     IN \/ st.screen = "RESULT" /\ (~IsArray(recipe.hacks) \/ ~IsArray(recipe.need_to_buy))
        \/ st.screen = "SHOPPING" /\ ~IsArray(recipe.need_to_buy)
        \/ st.screen = "COOKING" /\ ~IsArray(recipe.steps)

\* The persistence effect: both entries are written, unless the first
\* setItem throws (quota), which skips the second and is caught.
Persist(st) ==
  IF storageFull
  THEN UNCHANGED <<lsState, lsSavings>>
  ELSE /\ lsState' = Some(stateToSave(st))
       /\ lsSavings' = Some(st.wasteSaved)

\* setState(newState), the render that follows, and its effect.  A render
\* that throws is never committed: the tree is unmounted and nothing is saved.
Commit(newState, stepIndex) ==
  /\ UNCHANGED <<storageFull, raw, score, viewed, shown, timer>>
  /\ IF RenderThrows(newState, stepIndex)
     THEN /\ crashed' = TRUE
          /\ UNCHANGED <<state, lsState, lsSavings>>
     ELSE /\ crashed' = crashed
          /\ state' = newState
          /\ Persist(newState)

-----------------------------------------------------------------------------
(* Timer widget (src/components/Timer.tsx)                                 *)
(* `interval` tells whether a setInterval callback is armed; its closure   *)
(* holds the minutes and seconds of the render that armed it, which are    *)
(* the current ones because every change re-runs the effect.  `dirty`      *)
(* tells that a render happened whose effect has not run yet: React runs   *)
(* it before it handles the next event.  The two setState calls of a tick  *)
(* are applied in one render.                                              *)

MaxMinutes == 2          \* cap of the minutes "+M" can reach

TimerMounted ==
  [minutes |-> 0, seconds |-> 0, isActive |-> FALSE, interval |-> FALSE,
   dirty |-> TRUE]

-----------------------------------------------------------------------------
(* Initial state: first mount with an empty localStorage                   *)

Act(name, arg) == [name |-> name, arg |-> arg]

InitApp ==
  /\ state = FreshState
  /\ timer = TimerMounted
  /\ loading = FALSE
  /\ currentStepIndex = 0
  /\ genReqs = 0
  /\ imgReqs = {}
  /\ editReqs = {}
  /\ scanReqs = 0
  /\ nextId = 1
  /\ finishes = 0
  /\ storageFull = FALSE
  /\ crashed = FALSE
  /\ lastAction = Act("Mount", "")
  /\ lsState = Some(stateToSave(FreshState))
  /\ lsSavings = Some(0)

\* ... and no render has computed anything yet
Init ==
  /\ InitApp
  /\ raw = Null
  /\ score = Null
  /\ viewed = Null
  /\ shown = Null

\* A click that only calls setState(prev => ...)
Click(newState) ==
  /\ ~crashed
  /\ Commit(newState, currentStepIndex)
  /\ UNCHANGED <<loading, currentStepIndex, reqs, nextId, finishes>>

\* A click that enters COOKING: setState(...) and setCurrentStepIndex(0)
EnterCooking(newState) ==
  /\ ~crashed
  /\ Commit(newState, 0)
  /\ currentStepIndex' = 0
  /\ UNCHANGED <<loading, reqs, nextId, finishes>>

\* A step that leaves AppState, and so localStorage, alone
NoCommit ==
  UNCHANGED <<state, lsState, lsSavings, storageFull, crashed, raw, score, viewed, shown, timer>>

-----------------------------------------------------------------------------
(* Navigation                                                              *)

\* renderHeader logo (part_000:265), and the back arrows of RESULT (354) and
\* COOKBOOK (412), which call the same updater
GoHome ==
  /\ state.screen \in {"LANDING", "RESULT", "SHOPPING", "COOKING", "COOKBOOK"}
  /\ lastAction' = Act("Navigate", "")
  /\ Click(SetScreen(state, "LANDING"))

\* (mutant) Go Home leads back to the recipe options
SuccessHomeToResult ==
  /\ state.screen = "SUCCESS"
  /\ state.currentRecipe # Null
  /\ lastAction' = Act("Navigate", "")
  /\ Click(SetScreen(state, "RESULT"))

\* renderSuccess "Go Home"
SuccessHome ==
  /\ state.screen = "SUCCESS"
  /\ state.currentRecipe # Null
  /\ lastAction' = Act("Navigate", "")
  /\ Click(SetScreen(state, "LANDING"))

\* (mutant) the cookbook opens only once something is saved
OpenCookbookWhenNonEmpty ==
  /\ state.screen = "LANDING"
  /\ state.cookbook # << >>
  /\ lastAction' = Act("Navigate", "")
  /\ Click(SetScreen(state, "COOKBOOK"))

\* renderLanding "My Cookbook"
OpenCookbook ==
  /\ state.screen = "LANDING"
  /\ lastAction' = Act("Navigate", "")
  /\ Click(SetScreen(state, "COOKBOOK"))

\* renderCookbook: click on the i-th saved recipe
SelectCookbookRecipe(i) ==
  /\ state.screen = "COOKBOOK"
  /\ i \in 1..Len(state.cookbook)
  /\ lastAction' = Act("Navigate", "")
  /\ Click(SelectRecipe(state, state.cookbook[i]))

\* renderRecipeDetail: back arrow
DetailBack ==
  /\ state.screen = "RECIPE_DETAIL"
  /\ ActiveRecipe(state) # Null
  /\ lastAction' = Act("Navigate", "")
  /\ Click(SetScreen(state, BackTarget(state)))

\* renderRecipeDetail "Cook Now"
CookNow ==
  /\ state.screen = "RECIPE_DETAIL"
  /\ ActiveRecipe(state) # Null
  /\ lastAction' = Act("CookNow", "")
  /\ EnterCooking(CookNowState(state, safeRecipe(ActiveRecipe(state)[1])))

\* renderResult "Cook with Hacks"
CookWithHacks ==
  /\ state.screen = "RESULT"
  /\ state.currentRecipe # Null
  /\ lastAction' = Act("CookWithHacks", "")
  /\ EnterCooking(CookWithHacksState(state, state.currentRecipe[1]))

\* renderResult "Go Shopping First"
GoShopping ==
  /\ state.screen = "RESULT"
  /\ state.currentRecipe # Null
  /\ lastAction' = Act("GoShopping", "")
  /\ Click(GoShoppingState(state, state.currentRecipe[1]))

\* renderShopping / renderCooking: back chevron
BackToResult ==
  /\ \/ state.screen = "SHOPPING"
     \/ state.screen = "COOKING" /\ state.currentRecipe # Null
  /\ lastAction' = Act("Navigate", "")
  /\ Click(SetScreen(state, "RESULT"))

\* renderShopping "Start Cooking"
StartCooking ==
  /\ state.screen = "SHOPPING"
  /\ lastAction' = Act("StartCooking", "")
  /\ EnterCooking(SetScreen(state, "COOKING"))

-----------------------------------------------------------------------------
(* Cooking session                                                         *)

CookingRendered ==
  ~crashed /\ state.screen = "COOKING" /\ state.currentRecipe # Null

\* (mutant) off by one: "Done!" appears one step late
FinishShownOffByOne(recipe, stepIndex) == stepIndex = StepsLength(recipe)

\* renderCooking: "Done!" replaces "Next" at this index
FinishShown(recipe, stepIndex) == stepIndex = StepsLength(recipe) - 1

\* renderCooking: "Prev" is disabled at this index
PrevDisabled(stepIndex) == stepIndex = 0

\* renderCooking "Prev"
PrevStep ==
  /\ CookingRendered
  /\ ~PrevDisabled(currentStepIndex)
  /\ currentStepIndex' = currentStepIndex - 1
  /\ lastAction' = Act("Step", "")
  /\ NoCommit
  /\ UNCHANGED <<loading, reqs, nextId, finishes>>

\* renderCooking "Next"
NextStep ==
  /\ CookingRendered
  /\ ~FinishShown(state.currentRecipe[1], currentStepIndex)
  /\ currentStepIndex < MaxStepIndex
  /\ currentStepIndex' = currentStepIndex + 1
  /\ lastAction' = Act("Step", "")
  /\ NoCommit
  /\ UNCHANGED <<loading, reqs, nextId, finishes>>

\* renderCooking "Done!" -> finishCooking
FinishCooking ==
  /\ CookingRendered
  /\ FinishShown(state.currentRecipe[1], currentStepIndex)
  /\ finishes < MaxFinishes
  /\ finishes' = finishes + 1
  /\ lastAction' = Act("FinishCooking", "")
  /\ Commit(Finished(state, Savings(state)), currentStepIndex)
  /\ UNCHANGED <<loading, currentStepIndex, reqs, nextId>>

-----------------------------------------------------------------------------
(* Cookbook save                                                           *)

\* saveRecipe(type), from the pins of RESULT and from "Save Recipe" of SUCCESS
SaveRecipe(type) ==
  /\ ~crashed
  /\ state.currentRecipe # Null
  /\ \/ state.screen = "RESULT"
     \/ /\ state.screen = "SUCCESS"
        /\ type = IF state.selectedMode = "HACK" THEN "HACK_IT" ELSE "SHOP_IT"
  /\ IF isRecipeSaved(state, state.currentRecipe[1].id)
     THEN /\ lastAction' = Act("AlreadySaved", type)
          /\ NoCommit
          /\ UNCHANGED <<loading, currentStepIndex, reqs, nextId, finishes>>
     ELSE /\ lastAction' = Act("SaveRecipe", type)
          /\ Click(PrependToCookbook(state,
                     recipeToSave(state.currentRecipe[1], type, Today)))

-----------------------------------------------------------------------------
(* Recipe generation and its background image                              *)

\* renderLanding "Rescue This Meal" -> generateDecision, up to the await.
\* The button is disabled while inputQuery is empty or loading is set, and
\* the handler returns at once on an empty inputQuery.
GenerateDecision(inputQuery, maxRecipes) ==
  /\ ~crashed
  /\ state.screen = "LANDING"
  /\ lastAction' = Act("GenerateDecision", inputQuery)
  /\ IF inputQuery = ""
     THEN UNCHANGED <<loading, genReqs>>
     ELSE /\ ~loading
          /\ nextId + genReqs <= maxRecipes
          /\ loading' = TRUE
          /\ genReqs' = genReqs + 1
  /\ NoCommit
  /\ UNCHANGED <<currentStepIndex, imgReqs, editReqs, scanReqs, nextId, finishes>>

\* generateDecision after the await: the recipe arrived
GenerationSucceeds(data) ==
  /\ ~crashed
  /\ IsArray(data.hacks)
  /\ genReqs > 0
  /\ genReqs' = genReqs - 1
  /\ nextId' = nextId + 1
  /\ loading' = FALSE
  /\ imgReqs' = imgReqs \cup {nextId}
  /\ lastAction' = Act("GenerationSucceeds", "")
  /\ Commit(ShowResult(state, GeneratedRecipe(nextId, data)), currentStepIndex)
  /\ UNCHANGED <<currentStepIndex, editReqs, scanReqs, finishes>>

\* (mutant) the catch block does not clear the loading flag
GenerationFailsKeepsLoading ==
  /\ ~crashed
  /\ genReqs > 0
  /\ genReqs' = genReqs - 1
  /\ lastAction' = Act("GenerationFails", "")
  /\ NoCommit
  /\ UNCHANGED <<loading, currentStepIndex, imgReqs, editReqs, scanReqs, nextId,
                 finishes>>

\* generateDecision, catch: the request rejected
GenerationFails ==
  /\ ~crashed
  /\ genReqs > 0
  /\ genReqs' = genReqs - 1
  /\ loading' = FALSE
  /\ lastAction' = Act("GenerationFails", "")
  /\ NoCommit
  /\ UNCHANGED <<currentStepIndex, imgReqs, editReqs, scanReqs, nextId, finishes>>

\* generateRecipeAndHacks throws on a body without hacks (data.hacks.every
\* of undefined), and generateDecision catches it
GenerationThrows(data) ==
  /\ ~IsArray(data.hacks)
  /\ GenerationFails

\* (mutant) the illustration also reaches the saved copy of the recipe
ImageResolvesInCookbook(id) ==
  /\ ~crashed
  /\ id \in imgReqs
  /\ imgReqs' = imgReqs \ {id}
  /\ lastAction' = Act("ImageResolves", "")
  /\ LET shownState == ApplyIllustration(state, id, Illustration(id))
         newState ==
           [shownState EXCEPT
              !.cookbook = [i \in 1..Len(@) |->
                              IF @[i].id = id
                              THEN [@[i] EXCEPT !.imageUrl = Illustration(id)]
                              ELSE @[i]]]
     IN IF newState # state
        THEN Commit(newState, currentStepIndex)
        ELSE NoCommit
  /\ UNCHANGED <<loading, currentStepIndex, genReqs, editReqs, scanReqs, nextId,
                 finishes>>

\* generateRecipeImage(...).then: an illustration arrived for recipe id.
\* An updater that returns prev causes no render and no effect.
ImageResolves(id) ==
  /\ ~crashed
  /\ id \in imgReqs
  /\ imgReqs' = imgReqs \ {id}
  /\ lastAction' = Act("ImageResolves", "")
  /\ LET newState == ApplyIllustration(state, id, Illustration(id))
     IN IF newState # state
        THEN Commit(newState, currentStepIndex)
        ELSE NoCommit
  /\ UNCHANGED <<loading, currentStepIndex, genReqs, editReqs, scanReqs, nextId,
                 finishes>>

\* (mutant) the null result is stored without the `if (illustration)` test
ImageFailsStoresNull(id) ==
  /\ ~crashed
  /\ id \in imgReqs
  /\ imgReqs' = imgReqs \ {id}
  /\ lastAction' = Act("ImageFails", "")
  /\ Commit(ApplyIllustration(state, id, NullImage), currentStepIndex)
  /\ UNCHANGED <<loading, currentStepIndex, genReqs, editReqs, scanReqs, nextId,
                 finishes>>

\* generateRecipeImage resolved to null (it catches its own errors)
ImageFails(id) ==
  /\ ~crashed
  /\ id \in imgReqs
  /\ imgReqs' = imgReqs \ {id}
  /\ lastAction' = Act("ImageFails", "")
  /\ NoCommit
  /\ UNCHANGED <<loading, currentStepIndex, genReqs, editReqs, scanReqs, nextId,
                 finishes>>

-----------------------------------------------------------------------------
(* Image edit                                                              *)

\* renderRecipeDetail "Apply" -> handleMagicEdit, up to the await.  The
\* button is disabled while the prompt is blank or loading is set, and the
\* handler returns at once on a recipe without image or a blank prompt.
MagicEdit(editImagePrompt) ==
  /\ ~crashed
  /\ state.screen = "RECIPE_DETAIL"
  /\ ActiveRecipe(state) # Null
  /\ lastAction' = Act("MagicEdit", editImagePrompt)
  /\ LET activeRecipe == ActiveRecipe(state)[1]
     IN IF ~HasImage(activeRecipe.imageUrl) \/ IsBlank(editImagePrompt)
        THEN UNCHANGED <<loading, editReqs>>
        ELSE /\ ~loading
             /\ Cardinality(editReqs) < MaxEditReqs
             /\ loading' = TRUE
             /\ editReqs' = editReqs \cup
                  {[activeRecipe |-> activeRecipe, screen |-> state.screen]}
  /\ NoCommit
  /\ UNCHANGED <<currentStepIndex, genReqs, imgReqs, scanReqs, nextId, finishes>>

\* (mutant) the edited entry moves to the front of the cookbook
MagicEditSucceedsMovingToFront(req) ==
  /\ ~crashed
  /\ req \in editReqs
  /\ editReqs' = editReqs \ {req}
  /\ loading' = FALSE
  /\ lastAction' = Act("MagicEditSucceeds", "")
  /\ LET updatedRecipe == [req.activeRecipe EXCEPT
                             !.imageUrl = EditedImage(req.activeRecipe.id)]
         others == SelectSeq(state.cookbook,
                             LAMBDA r : r.id # updatedRecipe.id)
     IN Commit([state EXCEPT
                  !.selectedCookbookRecipe = Some(updatedRecipe),
                  !.cookbook = <<updatedRecipe>> \o others],
               currentStepIndex)
  /\ UNCHANGED <<currentStepIndex, genReqs, imgReqs, scanReqs, nextId, finishes>>

\* handleMagicEdit after the await: a new image arrived
MagicEditSucceeds(req) ==
  /\ ~crashed
  /\ req \in editReqs
  /\ editReqs' = editReqs \ {req}
  /\ loading' = FALSE
  /\ lastAction' = Act("MagicEditSucceeds", "")
  /\ Commit(ApplyEdit(state, req.screen,
                      [req.activeRecipe EXCEPT
                         !.imageUrl = EditedImage(req.activeRecipe.id)]),
            currentStepIndex)
  /\ UNCHANGED <<currentStepIndex, genReqs, imgReqs, scanReqs, nextId, finishes>>

\* the toast of a failed edit
EditFailedNotice == "Edit Failed"

\* (mutant) a failed edit empties the image it could not replace
MagicEditFailsDroppingImage(req) ==
  /\ ~crashed
  /\ req \in editReqs
  /\ editReqs' = editReqs \ {req}
  /\ loading' = FALSE
  /\ lastAction' = Act("MagicEditFails", EditFailedNotice)
  /\ Commit(ApplyEdit(state, req.screen,
                      [req.activeRecipe EXCEPT !.imageUrl = NullImage]),
            currentStepIndex)
  /\ UNCHANGED <<currentStepIndex, genReqs, imgReqs, scanReqs, nextId, finishes>>

\* handleMagicEdit: the service threw or returned null; showToast, and
\* setLoading(false) in the finally block
MagicEditFails(req) ==
  /\ ~crashed
  /\ req \in editReqs
  /\ editReqs' = editReqs \ {req}
  /\ loading' = FALSE
  /\ lastAction' = Act("MagicEditFails", EditFailedNotice)
  /\ NoCommit
  /\ UNCHANGED <<currentStepIndex, genReqs, imgReqs, scanReqs, nextId, finishes>>

-----------------------------------------------------------------------------
(* Pantry and city                                                         *)

\* response.text of the vision request; NoText is an undefined text
NoText == "(undefined)"

ScanTexts == {NoText, "", "egg", "egg, rice", "rice,rice"}

\* scanIngredients: response.text?.split(',').map(i => i.trim()) || []
scanIngredients(text) ==
  CASE text = NoText -> << >>
    [] text = "" -> <<"">>
    [] text = "egg" -> <<"egg">>
    [] text = "egg, rice" -> <<"egg", "rice">>
    [] text = "rice,rice" -> <<"rice", "rice">>

\* renderLanding: city input
SetCity(city) ==
  /\ state.screen = "LANDING"
  /\ city # state.city
  /\ lastAction' = Act("SetCity", "")
  /\ Click([state EXCEPT !.city = city])

\* addIngredient, with a non-blank newIngredientName
AddIngredient(name) ==
  /\ state.screen = "LANDING"
  /\ Len(state.scannedIngredients) < MaxPantry
  /\ lastAction' = Act("AddIngredient", "")
  /\ Click([state EXCEPT !.scannedIngredients = Append(@, name)])

\* removeIngredient(idx)
RemoveIngredient(idx) ==
  /\ state.screen = "LANDING"
  /\ idx \in 1..Len(state.scannedIngredients)
  /\ lastAction' = Act("RemoveIngredient", "")
  /\ Click([state EXCEPT !.scannedIngredients = RemoveAt(@, idx)])

\* handleScan with a chosen file, up to the await
ScanStart ==
  /\ ~crashed
  /\ state.screen = "LANDING"
  /\ scanReqs < MaxScanReqs
  /\ loading' = TRUE
  /\ scanReqs' = scanReqs + 1
  /\ lastAction' = Act("ScanStart", "")
  /\ NoCommit
  /\ UNCHANGED <<currentStepIndex, genReqs, imgReqs, editReqs, nextId, finishes>>

\* reader.onloadend after the await: the vision request answered with text
ScanSucceeds(text) ==
  /\ ~crashed
  /\ scanReqs > 0
  /\ scanReqs' = scanReqs - 1
  /\ loading' = FALSE
  /\ lastAction' = Act("ScanSucceeds", text)
  /\ Commit(MergeScan(state, scanIngredients(text)), currentStepIndex)
  /\ UNCHANGED <<currentStepIndex, genReqs, imgReqs, editReqs, nextId, finishes>>

\* scanIngredients rejected inside reader.onloadend: nothing catches it
ScanFails ==
  /\ ~crashed
  /\ scanReqs > 0
  /\ scanReqs' = scanReqs - 1
  /\ lastAction' = Act("ScanFails", "")
  /\ NoCommit
  /\ UNCHANGED <<loading, currentStepIndex, genReqs, imgReqs, editReqs, nextId,
                 finishes>>

-----------------------------------------------------------------------------
(* Page reload: a new mount that reads localStorage                        *)

Reload ==
  /\ IF ParseThrows(lsState)
     THEN /\ crashed' = TRUE
          /\ UNCHANGED <<state, lsState, lsSavings>>
     ELSE LET loaded == LoadedState(lsState, lsSavings)
          IN IF RenderThrows(loaded, 0)
             THEN /\ crashed' = TRUE
                  /\ UNCHANGED <<state, lsState, lsSavings>>
             ELSE /\ crashed' = FALSE
                  /\ state' = loaded
                  /\ Persist(loaded)
  /\ loading' = FALSE
  /\ currentStepIndex' = 0
  /\ genReqs' = 0
  /\ imgReqs' = {}
  /\ editReqs' = {}
  /\ scanReqs' = 0
  /\ lastAction' = Act("Reload", "")
  /\ UNCHANGED <<nextId, finishes, storageFull, raw, score, viewed, shown, timer>>

-----------------------------------------------------------------------------
(* The browser store between two mounts: entries removed or overwritten    *)
(* from outside the application                                            *)

StoreUntouched ==
  UNCHANGED <<state, loading, currentStepIndex, reqs, nextId, finishes,
              storageFull, crashed, raw, score, viewed, shown, timer>>

\* 'rescue_chef_state' is removed
ClearStateEntry ==
  /\ lsState # Null
  /\ lsState' = Null
  /\ lastAction' = Act("ClearStateEntry", "")
  /\ UNCHANGED lsSavings
  /\ StoreUntouched

\* 'rescue_chef_state' is overwritten with text that is not JSON
CorruptStateEntry ==
  /\ lsState # Some(CorruptEntry)
  /\ lsState' = Some(CorruptEntry)
  /\ lastAction' = Act("CorruptStateEntry", "")
  /\ UNCHANGED lsSavings
  /\ StoreUntouched

\* 'totalSavings' is removed
ClearSavingsEntry ==
  /\ lsSavings # Null
  /\ lsSavings' = Null
  /\ lastAction' = Act("ClearSavingsEntry", "")
  /\ UNCHANGED lsState
  /\ StoreUntouched

\* the store reaches its quota: setItem('rescue_chef_state', ...) throws
\* from now on
StorageFills ==
  /\ ~storageFull
  /\ storageFull' = TRUE
  /\ lastAction' = Act("StorageFills", "")
  /\ UNCHANGED <<state, loading, currentStepIndex, reqs, nextId, finishes,
                 lsState, lsSavings, crashed, raw, score, viewed, shown, timer>>

\* room is made in the store: setItem succeeds again
StorageFrees ==
  /\ storageFull
  /\ storageFull' = FALSE
  /\ lastAction' = Act("StorageFrees", "")
  /\ UNCHANGED <<state, loading, currentStepIndex, reqs, nextId, finishes,
                 lsState, lsSavings, crashed, raw, score, viewed, shown, timer>>

-----------------------------------------------------------------------------
(* Timer widget: handlers, interval callback and effect                    *)

AppUntouched ==
  UNCHANGED <<state, loading, currentStepIndex, reqs, nextId, finishes,
              lsState, lsSavings, storageFull, crashed, raw, score, viewed,
              shown>>

\* "+M", rendered while the timer is not active
AddMinute ==
  /\ ~timer.dirty
  /\ ~timer.isActive
  /\ timer.minutes < MaxMinutes
  /\ timer' = [timer EXCEPT !.minutes = @ + 1, !.dirty = TRUE]
  /\ lastAction' = Act("AddMinute", "")
  /\ AppUntouched

\* (mutant) "-M" without the Math.max
SubMinuteUnclamped ==
  /\ ~timer.dirty
  /\ ~timer.isActive
  /\ timer' = [timer EXCEPT !.minutes = @ - 1, !.dirty = TRUE]
  /\ lastAction' = Act("SubMinute", "")
  /\ AppUntouched

\* "-M", rendered while the timer is not active: Math.max(0, m - 1)
SubMinute ==
  /\ ~timer.dirty
  /\ ~timer.isActive
  /\ timer' = [timer EXCEPT !.minutes = IF @ - 1 > 0 THEN @ - 1 ELSE 0,
                            !.dirty = TRUE]
  /\ lastAction' = Act("SubMinute", "")
  /\ AppUntouched

\* toggle: "Start" / "Stop"
Toggle ==
  /\ ~timer.dirty
  /\ timer' = [timer EXCEPT !.isActive = ~@, !.dirty = TRUE]
  /\ lastAction' = Act("Toggle", "")
  /\ AppUntouched

\* (mutant) the seconds roll over to 60
TickRollingToSixty ==
  /\ ~timer.dirty
  /\ timer.interval
  /\ timer' =
       IF timer.seconds = 0
       THEN IF timer.minutes > 0
            THEN [timer EXCEPT !.minutes = @ - 1, !.seconds = 60, !.dirty = TRUE]
            ELSE timer
       ELSE [timer EXCEPT !.seconds = @ - 1, !.dirty = TRUE]
  /\ lastAction' = Act("Tick", "")
  /\ AppUntouched

\* the setInterval callback, one second after the effect armed it
Tick ==
  /\ ~timer.dirty
  /\ timer.interval
  /\ timer' =
       IF timer.seconds = 0
       THEN IF timer.minutes > 0
            THEN [timer EXCEPT !.minutes = @ - 1, !.seconds = 59, !.dirty = TRUE]
            ELSE timer
       ELSE [timer EXCEPT !.seconds = @ - 1, !.dirty = TRUE]
  /\ lastAction' = Act("Tick", "")
  /\ AppUntouched

\* useEffect on [isActive, minutes, seconds]: the cleanup of the previous
\* run clears its interval; then an interval is armed, or the timer at
\* 00:00 is made inactive (which, when it was active, renders again)
TimerEffect ==
  /\ timer.dirty
  /\ timer' =
       IF timer.isActive /\ (timer.minutes > 0 \/ timer.seconds > 0)
       THEN [timer EXCEPT !.interval = TRUE, !.dirty = FALSE]
       ELSE IF timer.minutes = 0 /\ timer.seconds = 0
            THEN [timer EXCEPT !.interval = FALSE, !.isActive = FALSE,
                               !.dirty = timer.isActive]
            ELSE [timer EXCEPT !.interval = FALSE, !.dirty = FALSE]
  /\ lastAction' = Act("TimerEffect", "")
  /\ AppUntouched

-----------------------------------------------------------------------------
(* Score display                                                           *)

\* a render calls normalizeScore on the safety score of the recipe it shows
NormalizeScore(input) ==
  /\ raw' = Some(input)
  /\ score' = Some(normalizeScore(input))
  /\ UNCHANGED <<state, loading, currentStepIndex, reqs, nextId, finishes,
                 lsState, lsSavings, storageFull, crashed, lastAction,
                 viewed, shown, timer>>

-----------------------------------------------------------------------------
(* Recipe views                                                            *)

MaxHacks == 4            \* cap of the number of hacks of a viewed recipe

\* the fields a view leaves alone, taken from a generated recipe
ViewedBase == GeneratedRecipe(1, FullBody)

\* what a response may hold where an array is due
ArrayForms(elem) == {Arr(<<elem>>), Undefined, Str("n/a")}

\* the recipes handed to the detail view
DetailInputs ==
  [id : {ViewedBase.id},
   name : {Str("Tajine"), Str(""), Undefined},
   description : {Str("of leftovers"), Undefined},
   ingredients : ArrayForms("egg"),
   already_have : ArrayForms("egg"),
   need_to_buy : ArrayForms("salt"),
   steps : ArrayForms("s1"),
   hacks : ArrayForms(GoodHack),
   tips : ArrayForms("t1"),
   safety_factors : ArrayForms("f1"),
   safety_score : {Score("number", 85, 1), Score("number", 0, 1), Undefined},
   difficulty : {Str("Easy"), Undefined},
   savings_dh : {ViewedBase.savings_dh},
   isHackRecommended : {ViewedBase.isHackRecommended},
   imageUrl : {EmptyImage, Illustration(ViewedBase.id)},
   type : {"HACK_IT"},
   savedDate : {Today}]

\* renderRecipeDetail computes safeRecipe from the recipe it shows
RenderRecipeDetail ==
  /\ viewed # Null
  /\ shown' = Some(safeRecipe(viewed[1]))
  /\ UNCHANGED <<state, loading, currentStepIndex, reqs, nextId, finishes,
                 lsState, lsSavings, storageFull, crashed, lastAction,
                 raw, score, viewed, timer>>

\* (mutant) the flag the service computed decides the recommendation
recommendedIdByFlag(recipe) == IF recipe.isHackRecommended THEN 1 ELSE 2

\* renderResult: recommendedId.  An absent safety_score parses to NaN, and
\* NaN >= 75 is false.
recommendedId(recipe) ==
  IF /\ recipe.safety_score.t = "score"
     /\ normalizeScore(recipe.safety_score.v[1]) >= 75
     /\ Len(recipe.hacks.v) <= 3
  THEN 1
  ELSE 2

\* renderResult: the card of option 1 (Hack It) and of option 2 (Shop It)
\* carries the highlight when recommendedId is its number
ResultView(recipe) ==
  LET id == recommendedId(recipe)
  IN [recommendedId |-> id, hackMarked |-> id = 1, shopMarked |-> id = 2]

HackLists == {[i \in 1..n |-> GoodHack] : n \in 0..MaxHacks}

SafetyScores ==
  {Undefined} \cup {[t |-> "score", v |-> <<input>>] : input \in ScoreInputs}

\* the recipes handed to the result view
ResultInputs ==
  {[ViewedBase EXCEPT !.safety_score = s, !.hacks = Arr(h),
                      !.isHackRecommended = b] :
     s \in SafetyScores, h \in HackLists, b \in BOOLEAN}

\* renderResult on a recipe whose arrays are present
RenderResult ==
  /\ viewed # Null
  /\ IsArray(viewed[1].hacks)
  /\ IsArray(viewed[1].need_to_buy)
  /\ shown' = Some(ResultView(viewed[1]))
  /\ UNCHANGED <<state, loading, currentStepIndex, reqs, nextId, finishes,
                 lsState, lsSavings, storageFull, crashed, lastAction,
                 raw, score, viewed, timer>>

-----------------------------------------------------------------------------
(* Specifications                                                          *)

\* The steps that take no input from the generation service
\* The clicks of the recipe flow
UserFlow ==
  \/ GoHome
  \/ SuccessHome
  \/ OpenCookbook
  \/ \E i \in 1..MaxRecipes : SelectCookbookRecipe(i)
  \/ DetailBack
  \/ CookNow
  \/ CookWithHacks
  \/ GoShopping
  \/ BackToResult
  \/ StartCooking
  \/ PrevStep
  \/ NextStep
  \/ FinishCooking
  \/ \E type \in SaveTypes : SaveRecipe(type)
  \/ \E editImagePrompt \in Prompts : MagicEdit(editImagePrompt)

\* The clicks, the completions of what they started, and the page reload
RecipeFlow ==
  \/ UserFlow
  \/ GenerationFails
  \/ \E id \in 1..MaxRecipes : ImageResolves(id)
  \/ \E id \in 1..MaxRecipes : ImageFails(id)
  \/ \E req \in editReqs : MagicEditSucceeds(req)
  \/ \E req \in editReqs : MagicEditFails(req)
  \/ Reload

\* The recipe flow with up to MaxRecipes well-formed recipes
Next ==
  \/ RecipeFlow
  \/ \E inputQuery \in Queries : GenerateDecision(inputQuery, MaxRecipes)
  \/ \E data \in Payloads : GenerationSucceeds(data)

Spec == Init /\ [][Next]_vars

\* The recipe flow with up to MaxBodyRecipes recipes of any kind: with and
\* without steps, with a fractional, zero, negative or missing savings amount
NextBodies ==
  \/ RecipeFlow
  \/ \E inputQuery \in Queries : GenerateDecision(inputQuery, MaxBodyRecipes)
  \/ \E data \in AnyBody : GenerationSucceeds(data)

SpecBodies == Init /\ [][NextBodies]_vars

\* The recipe flow with up to MaxBodyRecipes recipes whose body may miss an
\* array field
NextMalformed ==
  \/ RecipeFlow
  \/ \E inputQuery \in Queries : GenerateDecision(inputQuery, MaxBodyRecipes)
  \/ \E data \in MalformedBodies : GenerationSucceeds(data)
  \/ \E data \in MalformedBodies : GenerationThrows(data)

SpecMalformed == Init /\ [][NextMalformed]_vars

\* The landing screen: pantry scan and editing, the city, and generation,
\* the three of which share the loading flag
NextPantry ==
  \/ \E city \in Cities : SetCity(city)
  \/ \E name \in IngredientNames : AddIngredient(name)
  \/ \E idx \in 1..(MaxPantry + 2) : RemoveIngredient(idx)
  \/ ScanStart
  \/ \E text \in ScanTexts : ScanSucceeds(text)
  \/ ScanFails
  \/ \E inputQuery \in Queries : GenerateDecision(inputQuery, MaxRecipes)
  \/ \E data \in Payloads : GenerationSucceeds(data)
  \/ GenerationFails
  \/ \E id \in 1..MaxRecipes : ImageResolves(id)
  \/ \E id \in 1..MaxRecipes : ImageFails(id)
  \/ GoHome
  \/ Reload

SpecPantry == Init /\ [][NextPantry]_vars

\* The recipe flow with a browser store whose entries can be removed or
\* overwritten between two mounts
NextStorage ==
  \/ RecipeFlow
  \/ \E inputQuery \in Queries : GenerateDecision(inputQuery, MaxBodyRecipes)
  \/ \E data \in Payloads : GenerationSucceeds(data)
  \/ ClearStateEntry
  \/ CorruptStateEntry
  \/ ClearSavingsEntry

SpecStorage == Init /\ [][NextStorage]_vars

\* The recipe flow with a store that may be at its quota
NextQuota ==
  \/ RecipeFlow
  \/ \E inputQuery \in Queries : GenerateDecision(inputQuery, MaxBodyRecipes)
  \/ \E data \in Payloads : GenerationSucceeds(data)
  \/ StorageFills
  \/ StorageFrees

SpecQuota == Init /\ [][NextQuota]_vars

\* The score normalizer on every raw score of ScoreInputs
NextScore == \E input \in ScoreInputs : NormalizeScore(input)

SpecScore == Init /\ [][NextScore]_vars

\* The detail view on every recipe of DetailInputs
InitDetail ==
  /\ InitApp
  /\ raw = Null
  /\ score = Null
  /\ viewed \in {Some(recipe) : recipe \in DetailInputs}
  /\ shown = Null

SpecDetail == InitDetail /\ [][RenderRecipeDetail]_vars

\* The result view on every recipe of ResultInputs
InitResult ==
  /\ InitApp
  /\ raw = Null
  /\ score = Null
  /\ viewed \in {Some(recipe) : recipe \in ResultInputs}
  /\ shown = Null

SpecResult == InitResult /\ [][RenderResult]_vars

\* The Timer widget on its own
NextTimer ==
  \/ AddMinute
  \/ SubMinute
  \/ Toggle
  \/ Tick
  \/ TimerEffect

SpecTimer == Init /\ [][NextTimer]_vars

\* ... with a browser that fires an armed interval and React running a
\* pending effect
SpecTimerLive ==
  Init /\ [][NextTimer]_vars /\ WF_vars(Tick) /\ WF_vars(TimerEffect)

-----------------------------------------------------------------------------
(* Properties                                                              *)

CurrentRecipeIs(st, id) ==
  st.currentRecipe # Null /\ st.currentRecipe[1].id = id

\* C1: a background image is written to currentRecipe only if currentRecipe
\* is non-null and has the id the image was requested for; an image that
\* arrives for a replaced recipe leaves the whole AppState unchanged.
C1_StaleImageDiscarded ==
  [][lastAction'.name = "ImageResolves" =>
       \A id \in imgReqs \ imgReqs' :
         IF CurrentRecipeIs(state, id)
         THEN state' = [state EXCEPT
                          !.currentRecipe[1].imageUrl = Illustration(id)]
         ELSE state' = state]_vars

\* Recipe 1's image arrived while recipe 2, still waiting for its own, was current.
C1_Witness ==
  /\ lastAction.name = "ImageResolves"
  /\ CurrentRecipeIs(state, 2)
  /\ imgReqs = {2}
  /\ state.currentRecipe[1].imageUrl = EmptyImage

NoDuplicateIds(cookbook) ==
  \A i, j \in 1..Len(cookbook) : cookbook[i].id = cookbook[j].id => i = j

IsSaveCall(action) == action.name \in {"SaveRecipe", "AlreadySaved"}

\* C2: the cookbook never holds two entries with the same id, and a
\* saveRecipe call for an id that is already in it changes nothing.
C2_NoDuplicateSave ==
  /\ [](NoDuplicateIds(state.cookbook))
  /\ [][(IsSaveCall(lastAction')
          /\ \E i \in 1..Len(state.cookbook) :
                CurrentRecipeIs(state, state.cookbook[i].id))
        => state' = state]_vars

\* A second save of a recipe was attempted with two recipes in the cookbook.
C2_Witness ==
  /\ lastAction.name = "AlreadySaved"
  /\ Len(state.cookbook) = 2
  /\ \E i \in 1..2 : CurrentRecipeIs(state, state.cookbook[i].id)

\* C3: saveRecipe(type) of a recipe that is not in the cookbook puts a copy
\* of currentRecipe, tagged with the type and a saved date, in front of the
\* previous entries and changes no other field of AppState.
C3_SavePrepends ==
  [][(/\ IsSaveCall(lastAction')
      /\ state.currentRecipe # Null
      /\ \A i \in 1..Len(state.cookbook) :
            ~CurrentRecipeIs(state, state.cookbook[i].id))
     => /\ lastAction'.arg \in SaveTypes
        /\ Len(state'.cookbook) = Len(state.cookbook) + 1
        /\ Head(state'.cookbook).savedDate # ""
        /\ Head(state'.cookbook) =
             [state.currentRecipe[1] EXCEPT
                !.type = lastAction'.arg,
                !.savedDate = Head(state'.cookbook).savedDate]
        /\ Tail(state'.cookbook) = state.cookbook
        /\ state' = [state EXCEPT !.cookbook = state'.cookbook]]_vars

\* The second recipe was saved as SHOP_IT in front of the first, a HACK_IT.
C3_Witness ==
  /\ lastAction = Act("SaveRecipe", "SHOP_IT")
  /\ Len(state.cookbook) = 2
  /\ state.cookbook[1].id = 2 /\ state.cookbook[1].type = "SHOP_IT"
  /\ state.cookbook[2].id = 1 /\ state.cookbook[2].type = "HACK_IT"

\* C4: wasteSaved never decreases, whatever step is taken and whatever
\* savings amount the recipe carries.
C4_WasteSavedMonotone ==
  [][state'.wasteSaved >= state.wasteSaved]_vars

\* the increment C5 states: fixed point, in units of 1 / Scale
ClaimedIncrement(st) ==
  IF st.selectedMode = "HACK"
  THEN LET amount == st.currentRecipe[1].savings_dh
       IN IF amount = Undefined \/ amount = Num(0) THEN 5 * Scale
          ELSE amount.v[1]
  ELSE 5 * Scale

C6_DetailHasRecipe ==
  state.screen = "RECIPE_DETAIL" =>
    state.currentRecipe # Null \/ state.selectedCookbookRecipe # Null

\* The detail view of a cookbook recipe, resumed after a reload.
C6_Witness ==
  /\ state.screen = "RECIPE_DETAIL"
  /\ lastAction.name = "Reload"
  /\ state.selectedCookbookRecipe # Null

\* C7: on COOKING currentRecipe is non-null, whichever entry was taken.
C7_CookingHasRecipe ==
  state.screen = "COOKING" => state.currentRecipe # Null

\* COOKING entered by "Cook Now" from the detail view.
C7_Witness ==
  /\ state.screen = "COOKING"
  /\ lastAction.name = "CookNow"
  /\ state.currentRecipe # Null

\* C8: on COOKING the step index is within [0, steps.length), for every
\* recipe, one without steps included.
C8_StepIndexInRange ==
  state.screen = "COOKING" =>
    /\ state.currentRecipe # Null
    /\ 0 <= currentStepIndex
    /\ currentStepIndex < StepsLength(state.currentRecipe[1])

\* C9: the screen becomes SUCCESS only by the finish action, taken on
\* COOKING at the last step, and the finish action always ends on SUCCESS.
\* (A reload resumes the stored screen; it is not a transition.)
C9_SuccessOnlyByFinish ==
  [][/\ (/\ state'.screen = "SUCCESS"
         /\ state.screen # "SUCCESS"
         /\ lastAction'.name # "Reload")
        => /\ lastAction'.name = "FinishCooking"
           /\ state.screen = "COOKING"
           /\ state.currentRecipe # Null
           /\ currentStepIndex = StepsLength(state.currentRecipe[1]) - 1
     /\ lastAction'.name = "FinishCooking" => state'.screen = "SUCCESS"]_vars

\* The finish action was taken at the second, last step of a recipe.
C9_Witness ==
  /\ lastAction.name = "FinishCooking"
  /\ state.screen = "SUCCESS"
  /\ currentStepIndex = 1

RecipeIdsOf(st) ==
  {st.currentRecipe[i].id : i \in 1..Len(st.currentRecipe)}
    \cup {st.selectedCookbookRecipe[i].id :
            i \in 1..Len(st.selectedCookbookRecipe)}
    \cup {st.cookbook[i].id : i \in 1..Len(st.cookbook)}

\* C10: a successful generation ends on RESULT with selectedMode null and
\* currentRecipe the new recipe, under an id no recipe of the state had and
\* with an empty image; loading is cleared, one image request for that id
\* is started, and nothing else of AppState changes.
C10_GenerationShowsResult ==
  [][lastAction'.name = "GenerationSucceeds" =>
       /\ state'.currentRecipe # Null
       /\ LET recipe == state'.currentRecipe[1]
          IN /\ recipe.id \notin RecipeIdsOf(state)
             /\ recipe.id \notin imgReqs
             /\ recipe.imageUrl = EmptyImage
             /\ recipe.type = "" /\ recipe.savedDate = ""
             /\ \E data \in AnyBody :
                  /\ recipe.steps = data.steps
                  /\ recipe.hacks = data.hacks
                  /\ recipe.need_to_buy = data.need_to_buy
                  /\ recipe.savings_dh = data.savings_dh
             /\ imgReqs' = imgReqs \cup {recipe.id}
             /\ state' = [state EXCEPT !.currentRecipe = Some(recipe),
                                       !.screen = "RESULT",
                                       !.selectedMode = "null"]
       /\ loading' = FALSE]_vars

\* The second recipe arrived while the first was in the cookbook.
C10_Witness ==
  /\ lastAction.name = "GenerationSucceeds"
  /\ CurrentRecipeIs(state, 2)
  /\ Len(state.cookbook) = 1
  /\ state.screen = "RESULT"

\* C11: when the generation request fails, the loading flag is cleared, the
\* whole AppState (screen, currentRecipe, selectedMode, cookbook, wasteSaved
\* and the rest) stays as it was, and no image request is started.
C11_GenerationFailureKeepsState ==
  [][lastAction'.name = "GenerationFails" =>
       /\ state' = state
       /\ loading' = FALSE
       /\ imgReqs' = imgReqs
       /\ genReqs' = genReqs - 1]_vars

\* A second request failed on LANDING: recipe 1 and its pending image remain.
C11_Witness ==
  /\ lastAction.name = "GenerationFails"
  /\ state.screen = "LANDING"
  /\ CurrentRecipeIs(state, 1)
  /\ imgReqs = {1}
  /\ ~loading

\* C12: generateDecision with an empty query and handleMagicEdit with an
\* empty or whitespace-only prompt issue no request, do not set the loading
\* flag and leave the whole AppState, the screen included, unchanged.
C12_BlankInputsAreNoOps ==
  [][(\/ lastAction' = Act("GenerateDecision", "")
      \/ lastAction'.name = "MagicEdit" /\ lastAction'.arg \in {"", "  "})
     => /\ state' = state
        /\ loading' = loading
        /\ reqs' = reqs]_vars

\* "Apply" with a whitespace-only prompt on a recipe that has an image.
C12_Witness ==
  /\ lastAction = Act("MagicEdit", "  ")
  /\ state.screen = "RECIPE_DETAIL"
  /\ ActiveRecipe(state) # Null
  /\ HasImage(ActiveRecipe(state)[1].imageUrl)
  /\ ~loading
  /\ editReqs = {}

\* C13: when the background image request fails or yields no image,
\* AppState is unchanged (the recipe it was for keeps its empty image, the
\* screen stays) and the loading flag is not affected.
C13_ImageFailureKeepsState ==
  [][lastAction'.name = "ImageFails" =>
       /\ state' = state
       /\ loading' = loading
       /\ \A id \in imgReqs \ imgReqs' :
            CurrentRecipeIs(state', id) =>
              ~HasImage(state'.currentRecipe[1].imageUrl)]_vars

\* Recipe 1's image failed while the next generation held the loading flag.
C13_Witness ==
  /\ lastAction.name = "ImageFails"
  /\ CurrentRecipeIs(state, 1)
  /\ state.currentRecipe[1].imageUrl = EmptyImage
  /\ imgReqs = {}
  /\ loading

\* C14: at most one generation request is in flight at any time, and while
\* one is, the loading flag is cleared only by its own completion (or by a
\* reload, which abandons it).
C14_SingleGenerationInFlight ==
  /\ [](genReqs <= 1)
  /\ [][(genReqs > 0 /\ loading /\ ~loading')
        => (genReqs' < genReqs \/ lastAction'.name = "Reload")]_vars

\* C15: the loading flag is never left set with no request in flight: a
\* failed scan, generation or image edit clears it.
C15_LoadingHasRequest ==
  loading => (genReqs > 0 \/ scanReqs > 0 \/ editReqs # {})

Names(xs) == {xs[i] : i \in 1..Len(xs)}

\* C19: a scan that completes with list S on pantry P leaves a pantry
\* without duplicate names whose names are exactly those of P and of S
\* (P holds the manual additions made while the scan was in flight), and
\* changes nothing else of AppState.
C19_ScanMergesPantry ==
  [][lastAction'.name = "ScanSucceeds" =>
       LET S == scanIngredients(lastAction'.arg)
           pantry == state'.scannedIngredients
       IN /\ \A i, j \in 1..Len(pantry) : pantry[i] = pantry[j] => i = j
          /\ Names(pantry) = Names(state.scannedIngredients) \cup Names(S)
          /\ state' = [state EXCEPT !.scannedIngredients = pantry]]_vars

\* "rice" was in the pantry when the scan came back with "egg".
C19_Witness ==
  /\ lastAction = Act("ScanSucceeds", "egg")
  /\ state.scannedIngredients = <<"rice", "egg">>
  /\ ~loading

\* every recipe reference of an AppState: cookbook entries and both slots
RecipeRefs(st) ==
  {st.cookbook[i] : i \in 1..Len(st.cookbook)}
    \cup {st.currentRecipe[i] : i \in 1..Len(st.currentRecipe)}
    \cup {st.selectedCookbookRecipe[i] :
            i \in 1..Len(st.selectedCookbookRecipe)}

Emptied(recipe) == [recipe EXCEPT !.imageUrl = EmptyImage]

\* C16: every recipe reference of the persisted copy has an empty image,
\* and a write stores the in-memory state as it is but for the images,
\* which the in-memory state keeps.
C16_PersistedImagesEmpty ==
  /\ [](\A i \in 1..Len(lsState) :
          \A recipe \in RecipeRefs(lsState[1]) : recipe.imageUrl = EmptyImage)
  /\ [][lsState' # lsState =>
          /\ lsState' # Null
          /\ LET saved == lsState'[1]
             IN /\ Len(saved.cookbook) = Len(state'.cookbook)
                /\ \A i \in 1..Len(saved.cookbook) :
                     saved.cookbook[i] = Emptied(state'.cookbook[i])
                /\ Len(saved.currentRecipe) = Len(state'.currentRecipe)
                /\ \A i \in 1..Len(saved.currentRecipe) :
                     saved.currentRecipe[i] = Emptied(state'.currentRecipe[i])
                /\ Len(saved.selectedCookbookRecipe) =
                     Len(state'.selectedCookbookRecipe)
                /\ \A i \in 1..Len(saved.selectedCookbookRecipe) :
                     saved.selectedCookbookRecipe[i] =
                       Emptied(state'.selectedCookbookRecipe[i])
                /\ saved = [state' EXCEPT
                              !.cookbook = saved.cookbook,
                              !.currentRecipe = saved.currentRecipe,
                              !.selectedCookbookRecipe =
                                saved.selectedCookbookRecipe]]_vars

\* The cookbook entry, the selected recipe and the current recipe all carry
\* an image in memory while the persisted copy is in place.
C16_Witness ==
  /\ lsState # Null
  /\ Len(state.cookbook) = 1 /\ HasImage(state.cookbook[1].imageUrl)
  /\ state.selectedCookbookRecipe # Null
  /\ state.selectedCookbookRecipe[1].imageUrl = EditedImage(1)
  /\ state.currentRecipe # Null
  /\ HasImage(state.currentRecipe[1].imageUrl)
  /\ lsState[1].cookbook[1].imageUrl = EmptyImage

\* C17: a load with the counter entry present starts with wasteSaved equal
\* to the stored counter, whatever the serialized state holds; without the
\* entry it starts with the value of the serialized state, or 0 when there
\* is none.
C17_CounterEntryIsAuthoritative ==
  [][(lastAction'.name = "Reload" /\ ~crashed') =>
       state'.wasteSaved =
         IF lsSavings # Null THEN lsSavings[1]
         ELSE IF lsState # Null THEN lsState[1].wasteSaved
         ELSE 0]_vars

\* C18: a load with the serialized state removed or unparseable and the
\* counter entry intact succeeds, with wasteSaved equal to the stored
\* counter and everything else at the fresh defaults.
C18_CounterSurvivesLostState ==
  [][(/\ lastAction'.name = "Reload"
      /\ lsSavings # Null
      /\ (lsState = Null \/ lsState = Some(CorruptEntry)))
     => /\ ~crashed'
        /\ state' = [FreshState EXCEPT !.wasteSaved = lsSavings[1]]]_vars

\* C20: for every numeric-like input (a number, a numeric string, a string
\* with a percent sign) normalizeScore returns an integer from 0 to 100.
C20_ScoreInRange ==
  \A i \in 1..Len(score) : score[i] \in 0..100

\* The rule of the score contract, step by step on the exact value: a value
\* strictly between 0 and 1 is multiplied by 100, then a value above 100 is
\* divided by 100.
ReferenceValue(v) ==
  LET a == IF 0 < v.num /\ v.num < v.den THEN [num |-> 100 * v.num, den |-> v.den] ELSE v
  IN IF a.num > 100 * a.den THEN [num |-> a.num, den |-> 100 * a.den] ELSE a

\* k is an integer nearest to the fraction x: |x - k| <= 1/2
IsNearest(k, x) ==
  /\ 2 * (x.num - k * x.den) <= x.den
  /\ 2 * (k * x.den - x.num) <= x.den

\* the fraction v is the number n / d
IsValue(v, n, d) == v.num * d = n * v.den

\* C21: on every raw score of the bounded set normalizeScore returns an
\* integer nearest to the value the reference rule computes (a percent sign
\* stripped, a value between 0 and 1 multiplied by 100, then a value above 100
\* divided by 100); so 85, 0.85, 8500 and "72%" give 85, 85, 85 and 72, and
\* every integer from 0 to 100 gives itself.
C21_AgreesWithReference ==
  \A i \in 1..Len(raw) :
    LET v == raw[i].value IN
      /\ IsNearest(score[i], ReferenceValue(v))
      /\ IsValue(v, 85, 1) => score[i] = 85
      /\ IsValue(v, 85, 100) => score[i] = 85
      /\ IsValue(v, 8500, 1) => score[i] = 85
      /\ (raw[i].kind = "percent" /\ IsValue(v, 72, 1)) => score[i] = 72
      /\ \A n \in 0..100 : IsValue(v, n, 1) => score[i] = n

C21_Witness ==
  /\ raw # Null
  /\ raw[1].kind = "number"
  /\ IsValue(raw[1].value, 8500, 1)
  /\ score = Some(85)

DefaultedArrays ==
  {"hacks", "ingredients", "steps", "tips", "safety_factors", "already_have",
   "need_to_buy"}

DefaultedScalars == {"name", "description", "safety_score", "difficulty"}

ClaimedDefault(field) ==
  CASE field = "name" -> Str("Untitled Recipe")
    [] field = "description" -> Str("")
    [] field = "safety_score" -> Score("number", 0, 1)
    [] field = "difficulty" -> Str("Medium")

RecipeFields == DOMAIN ViewedBase

\* C22 as stated: the seven array fields become sequences, the four scalars
\* fall back when absent and are kept otherwise, every other field is copied
\* unchanged, and defaulting twice equals defaulting once.
C22_AsStated ==
  \A i \in 1..Len(shown) :
    LET in == viewed[i]
        out == shown[i]
    IN /\ \A f \in DefaultedArrays :
            out[f] = IF in[f].t = "array" THEN in[f] ELSE Arr(<< >>)
       /\ \A f \in DefaultedScalars :
            out[f] = IF in[f] = Undefined THEN ClaimedDefault(f) ELSE in[f]
       /\ \A f \in RecipeFields \ (DefaultedArrays \cup DefaultedScalars) :
            out[f] = in[f]
       /\ safeRecipe(out) = out

\* C22 (amended): the seven array fields become sequences (the original if
\* it was one, else empty); name, description, safety_score and difficulty
\* become 'Untitled Recipe', '', 0 and 'Medium' when absent or falsy (empty
\* text, the number 0) and are kept otherwise; imageUrl becomes null when
\* absent or empty and is kept otherwise; every other field is copied
\* unchanged; defaulting twice equals defaulting once.
C22_Defaulting ==
  \A i \in 1..Len(shown) :
    LET in == viewed[i]
        out == shown[i]
        empty(x) == x = Undefined \/ x = Str("") \/ x = Score("number", 0, 1)
    IN /\ \A f \in DefaultedArrays :
            out[f] = IF in[f].t = "array" THEN in[f] ELSE Arr(<< >>)
       /\ \A f \in DefaultedScalars :
            out[f] = IF empty(in[f]) THEN ClaimedDefault(f) ELSE in[f]
       /\ out.imageUrl = IF in.imageUrl \in {EmptyImage, NullImage}
                         THEN NullImage
                         ELSE in.imageUrl
       /\ \A f \in RecipeFields \ (DefaultedArrays \cup DefaultedScalars
                                     \cup {"imageUrl"}) :
            out[f] = in[f]
       /\ safeRecipe(out) = out

C22_Witness ==
  /\ shown # Null
  /\ viewed[1].hacks = Undefined
  /\ viewed[1].safety_score = Undefined
  /\ viewed[1].name = Str("")
  /\ viewed[1].imageUrl = EmptyImage
  /\ shown[1].hacks = Arr(<< >>)
  /\ shown[1].safety_score = Score("number", 0, 1)
  /\ shown[1].name = Str("Untitled Recipe")
  /\ shown[1].imageUrl = NullImage

\* C24: on the RESULT screen exactly one of the two options is marked
\* recommended: the hack option if and only if the normalized safety score is
\* at least 75 and there are at most 3 hacks, the shop option otherwise,
\* whatever the recipe's isHackRecommended flag says.
C24_OneOptionRecommended ==
  \A i \in 1..Len(shown) :
    LET recipe == viewed[i]
        hackDue == /\ recipe.safety_score # Undefined
                   /\ normalizeScore(recipe.safety_score.v[1]) >= 75
                   /\ Len(recipe.hacks.v) <= 3
    IN /\ shown[i].hackMarked <=> hackDue
       /\ shown[i].shopMarked <=> ~hackDue

\* a recipe the service did not flag, with a high score and few hacks, has
\* the hack option marked
C24_Witness ==
  /\ shown # Null
  /\ ~viewed[1].isHackRecommended
  /\ viewed[1].safety_score = Score("string", 85 * ScoreDen, ScoreDen)
  /\ Len(viewed[1].hacks.v) = 3
  /\ shown[1].hackMarked
  /\ ~shown[1].shopMarked

\* the array fields of the current recipe that the render of a screen reads
ArraysRead(screen) ==
  CASE screen = "RESULT" -> {"hacks", "need_to_buy"}
    [] screen = "SHOPPING" -> {"need_to_buy"}
    [] screen = "COOKING" -> {"steps"}
    [] OTHER -> {}

\* C23: a generation response with missing array fields never leads to a
\* crash: no render throws, and on every screen the arrays of the current
\* recipe that the screen reads are sequences.
C23_MalformedNeverCrashes ==
  /\ ~crashed
  /\ state.currentRecipe # Null
       => \A f \in ArraysRead(state.screen) :
            IsArray(state.currentRecipe[1][f])

WithImage(recipe, image) == [recipe EXCEPT !.imageUrl = image]

\* C25: when an image edit succeeds, the active slot (the cookbook selection
\* of the detail view) holds the recipe the edit was requested for with the
\* new image; where the slot still held that recipe, it keeps every field but
\* its image.  The cookbook entry with that id is updated in place the same
\* way, the cookbook keeps its length and order and its other entries, and
\* nothing else of the state changes.
C25_EditReplacesImage ==
  [][lastAction'.name = "MagicEditSucceeds"
     => \A req \in editReqs \ editReqs' :
          LET id == req.activeRecipe.id
              image == EditedImage(id)
              slot == state.selectedCookbookRecipe
          IN /\ state'.selectedCookbookRecipe =
                  Some(WithImage(req.activeRecipe, image))
             /\ (slot # Null /\ slot[1].id = id)
                  => state'.selectedCookbookRecipe = Some(WithImage(slot[1], image))
             /\ Len(state'.cookbook) = Len(state.cookbook)
             /\ \A i \in 1..Len(state.cookbook) :
                  state'.cookbook[i] =
                    IF state.cookbook[i].id = id
                    THEN WithImage(state.cookbook[i], image)
                    ELSE state.cookbook[i]
             /\ state' = [state EXCEPT
                            !.selectedCookbookRecipe = state'.selectedCookbookRecipe,
                            !.cookbook = state'.cookbook]]_vars

C25_Witness ==
  /\ lastAction.name = "MagicEditSucceeds"
  /\ Len(state.cookbook) = 2
  /\ state.cookbook[2].imageUrl = EditedImage(state.cookbook[2].id)
  /\ state.cookbook[1].imageUrl.kind # "edited"
  /\ state.selectedCookbookRecipe = Some(state.cookbook[2])
  /\ state.screen = "RECIPE_DETAIL"

\* C26: when an image edit fails, AppState is unchanged, the failure notice
\* is shown and the loading flag is cleared.
C26_EditFailureKeepsState ==
  [][(lastAction'.name = "MagicEditFails" /\ editReqs' # editReqs)
     => /\ state' = state
        /\ lastAction'.arg = EditFailedNotice
        /\ ~loading']_vars

C26_Witness ==
  /\ lastAction = Act("MagicEditFails", EditFailedNotice)
  /\ state.screen = "RECIPE_DETAIL"
  /\ state.selectedCookbookRecipe # Null
  /\ state.selectedCookbookRecipe[1].imageUrl.kind = "illustration"
  /\ ~loading

\* a click that takes the user to `screen` from another screen
UserGoesTo(screen) ==
  UserFlow /\ state.screen # screen /\ state'.screen = screen

\* C27 as stated: from every screen there is a user transition to COOKBOOK.
C27_CookbookFromEveryScreen ==
  state.screen # "COOKBOOK" => ENABLED UserGoesTo("COOKBOOK")

\* C27 (amended): a user transition to COOKBOOK exists from LANDING (My
\* Cookbook) and from RECIPE_DETAIL (back, with a cookbook selection); from
\* RESULT, SHOPPING, COOKING and SUCCESS there is none, but each of them has
\* a user transition to LANDING, from where the cookbook opens.
C27_CookbookViaLanding ==
  /\ state.screen = "LANDING" => ENABLED OpenCookbook
  /\ state.screen = "RECIPE_DETAIL" => ENABLED UserGoesTo("COOKBOOK")
  /\ state.screen \in {"RESULT", "SHOPPING", "COOKING", "SUCCESS"}
       => /\ ~ENABLED UserGoesTo("COOKBOOK")
          /\ ENABLED UserGoesTo("LANDING")

C27_Witness ==
  /\ state.screen = "COOKING"
  /\ state.cookbook # << >>
  /\ ~ENABLED UserGoesTo("COOKBOOK")
  /\ ENABLED UserGoesTo("LANDING")

\* C28: the back action of RECIPE_DETAIL goes to COOKBOOK when
\* selectedCookbookRecipe is populated and to RESULT otherwise, whatever the
\* other fields hold.  The detail view is entered from the cookbook only,
\* with the selection populated, and the selection stays populated: so the
\* back action goes to COOKBOOK, also after a fresh recipe was generated.
C28_BackTargetFollowsSelection ==
  /\ [](state.screen = "RECIPE_DETAIL" => state.selectedCookbookRecipe # Null)
  /\ [][(state.screen # "RECIPE_DETAIL" /\ state'.screen = "RECIPE_DETAIL")
         => /\ state.screen = "COOKBOOK"
            /\ state'.selectedCookbookRecipe # Null]_vars
  /\ [][(UserFlow /\ state.screen = "RECIPE_DETAIL"
                  /\ state'.screen \notin {"RECIPE_DETAIL", "COOKING"})
         => /\ state'.screen = IF state.selectedCookbookRecipe # Null
                               THEN "COOKBOOK"
                               ELSE "RESULT"
            /\ state'.screen = "COOKBOOK"]_vars

\* the detail view of a saved recipe, opened after a newer recipe was
\* generated: the back action leads to the cookbook
C28_Witness ==
  /\ state.screen = "RECIPE_DETAIL"
  /\ state.selectedCookbookRecipe # Null
  /\ state.currentRecipe # Null
  /\ state.currentRecipe[1].id > state.selectedCookbookRecipe[1].id
  /\ ENABLED UserGoesTo("COOKBOOK")
  /\ ~ENABLED UserGoesTo("RESULT")

C30_ModeTracksPath ==
  /\ [](state.screen = "SHOPPING" => state.selectedMode = "SHOP")
  /\ [][lastAction'.name = "CookWithHacks"
         => /\ state.screen = "RESULT"
            /\ state'.screen = "COOKING"
            /\ state'.selectedMode = "HACK"
            /\ currentStepIndex' = 0]_vars
  /\ [][lastAction'.name = "GoShopping"
         => /\ state.screen = "RESULT"
            /\ state'.screen = "SHOPPING"
            /\ state'.selectedMode = "SHOP"]_vars
  /\ [][lastAction'.name = "StartCooking"
         => /\ state.screen = "SHOPPING"
            /\ state'.screen = "COOKING"
            /\ currentStepIndex' = 0
            /\ state'.selectedMode = state.selectedMode
            /\ state'.selectedMode = "SHOP"]_vars

\* a recipe first cooked with hacks, then shopped for
C30_Witness ==
  /\ lastAction.name = "StartCooking"
  /\ state.screen = "COOKING"
  /\ state.selectedMode = "SHOP"
  /\ currentStepIndex = 0
  /\ finishes = MaxFinishes

\* the recipe the detail view shows: the cookbook selection, else the fresh one
ShownInDetail(st) ==
  IF st.selectedCookbookRecipe # Null
  THEN st.selectedCookbookRecipe[1]
  ELSE st.currentRecipe[1]

\* C31: Cook Now sets the screen to COOKING, the step index to 0 and
\* currentRecipe to the recipe of the detail view (a well-formed recipe is
\* defaulted in its image only: an empty image becomes null), and leaves
\* selectedMode, selectedCookbookRecipe, cookbook, pantry and wasteSaved as
\* they were; the increment of a later finish follows the selectedMode left
\* over, whatever the save-type tag of the cooked recipe.
C31_CookNowKeepsMode ==
  /\ [][lastAction'.name = "CookNow"
         => /\ state.screen = "RECIPE_DETAIL"
            /\ currentStepIndex' = 0
            /\ state' =
                 [state EXCEPT
                    !.screen = "COOKING",
                    !.currentRecipe =
                       Some([ShownInDetail(state) EXCEPT
                               !.imageUrl = IF @ = EmptyImage THEN NullImage
                                            ELSE @])]]_vars
  /\ [][(lastAction'.name = "FinishCooking" /\ state.currentRecipe[1].type # "")
         => state'.wasteSaved - state.wasteSaved =
              IF state.selectedMode = "HACK"
              THEN state.currentRecipe[1].savings_dh.v[1]
              ELSE 5 * Scale]_vars

\* a recipe saved as SHOP_IT, cooked from the cookbook with the HACK mode of
\* an earlier session left over, earned its own savings amount
C31_Witness ==
  /\ lastAction.name = "FinishCooking"
  /\ state.currentRecipe # Null
  /\ state.currentRecipe[1].type = "SHOP_IT"
  /\ state.selectedMode = "HACK"
  /\ state.wasteSaved = FullBody.savings_dh.v[1]

\* C32: the cookbook is append-only and newest-first: across every step its
\* length never decreases, no entry id disappears, the entries it had keep
\* their relative order, and a step that adds an entry is a save that puts
\* the saved recipe at index 0.
C32_CookbookAppendOnly ==
  [][LET old == state.cookbook
         new == state'.cookbook
         added == Len(new) - Len(old)
     IN /\ added \in {0, 1}
        /\ \A i \in 1..Len(old) : new[i + added].id = old[i].id
        /\ added = 1
             => /\ lastAction'.name = "SaveRecipe"
                /\ new[1].id = state.currentRecipe[1].id]_vars

\* a second recipe was saved in front of one whose image had been edited
C32_Witness ==
  /\ lastAction.name = "SaveRecipe"
  /\ Len(state.cookbook) = 2
  /\ state.cookbook[1].id = state.currentRecipe[1].id
  /\ state.cookbook[2].imageUrl = EditedImage(state.cookbook[2].id)

\* C33: the counter entry is written independently of the state entry: in
\* every state the value under 'totalSavings' is the in-memory wasteSaved,
\* also when writing the state entry fails.
C33_CounterPersistedIndependently ==
  lsSavings = Some(state.wasteSaved)

EmptiedSlot(slot) == [i \in 1..Len(slot) |-> Emptied(slot[i])]

\* the state with every image field empty
WithoutImages(st) ==
  [st EXCEPT !.cookbook = EmptiedSlot(@),
             !.currentRecipe = EmptiedSlot(@),
             !.selectedCookbookRecipe = EmptiedSlot(@)]

\* C34: persist-then-reload is a round trip up to images: a session with no
\* persisted entries starts from the fresh state; otherwise a reload restores
\* screen, city, pantry, selectedMode, wasteSaved, the cookbook and both
\* recipe slots as they were, with every image empty and the step index 0,
\* and on COOKING the restored state has a current recipe and a step index
\* in range.
C34_ReloadRoundTrip ==
  /\ LoadedState(Null, Null) =
       [screen |-> "LANDING", city |-> "", currentRecipe |-> Null,
        selectedCookbookRecipe |-> Null, scannedIngredients |-> << >>,
        wasteSaved |-> 0, cookbook |-> << >>, selectedMode |-> "null"]
  /\ [][lastAction'.name = "Reload"
         => /\ state' = WithoutImages(state)
            /\ currentStepIndex' = 0
            /\ state'.screen = "COOKING"
                 => /\ state'.currentRecipe # Null
                    /\ currentStepIndex' < Len(state'.currentRecipe[1].steps.v)]_vars

\* C35: within a session a cookbook entry keeps every field but its image
\* from the moment it is saved; its image changes only when an image edit
\* requested for its id completes (a reload, which starts a new session,
\* empties it).  A populated selectedCookbookRecipe is equal to a cookbook
\* entry.
C35_EntriesAreStable ==
  /\ [](\A i \in 1..Len(state.selectedCookbookRecipe) :
          \E j \in 1..Len(state.cookbook) :
            state.cookbook[j] = state.selectedCookbookRecipe[i])
  /\ [][\A i \in 1..Len(state.cookbook) :
          LET before == state.cookbook[i]
              after == state'.cookbook[i + Len(state'.cookbook) - Len(state.cookbook)]
          IN /\ Emptied(after) = Emptied(before)
             /\ after.imageUrl # before.imageUrl
                  => \/ lastAction'.name = "Reload"
                     \/ /\ lastAction'.name = "MagicEditSucceeds"
                        /\ \E req \in editReqs \ editReqs' :
                             req.activeRecipe.id = before.id]_vars

\* the newer of two saved recipes is selected and carries an edited image,
\* the older one still has its illustration
C35_Witness ==
  /\ Len(state.cookbook) = 2
  /\ state.selectedCookbookRecipe = Some(state.cookbook[1])
  /\ state.cookbook[1].imageUrl = EditedImage(state.cookbook[1].id)
  /\ state.cookbook[2].imageUrl = Illustration(state.cookbook[2].id)

\* C36: a saved entry carries the image currentRecipe had when it was saved;
\* a background image that resolves later changes currentRecipe only: the
\* cookbook, with the entry of the same id, and selectedCookbookRecipe stay
\* as they were.
C36_LateImageSkipsCookbook ==
  /\ [][lastAction'.name = "SaveRecipe"
         => state'.cookbook[1].imageUrl = state.currentRecipe[1].imageUrl]_vars
  /\ [][lastAction'.name = "ImageResolves"
         => /\ state'.cookbook = state.cookbook
            /\ state'.selectedCookbookRecipe = state.selectedCookbookRecipe
            /\ state' = [state EXCEPT !.currentRecipe = state'.currentRecipe]]_vars

\* the image of a recipe arrived after the recipe had been saved without it
C36_Witness ==
  /\ lastAction.name = "ImageResolves"
  /\ state.currentRecipe # Null
  /\ state.currentRecipe[1].imageUrl = Illustration(state.currentRecipe[1].id)
  /\ Len(state.cookbook) = 1
  /\ state.cookbook[1].id = state.currentRecipe[1].id
  /\ state.cookbook[1].imageUrl = EmptyImage

\* C37: from every state on COOKING the finish action becomes available
\* after finitely many next steps, for every recipe: some number n of next
\* steps, none of them past the end of the recipe, brings the step index to
\* the one at which "Done!" is shown.
C37_CookingCanBeFinished ==
  (state.screen = "COOKING" /\ ~crashed /\ state.currentRecipe # Null)
    => \E n \in 0..StepsLength(state.currentRecipe[1]) :
         FinishShown(state.currentRecipe[1], currentStepIndex + n)

\* C38: in every state of the Timer minutes >= 0 and 0 <= seconds <= 59, and
\* minutes are adjusted by +M and -M only while the timer is inactive, -M
\* never taking them below 0.
C38_TimerInRange ==
  /\ [](timer.minutes >= 0 /\ timer.seconds \in 0..59)
  /\ [][lastAction'.name \in {"AddMinute", "SubMinute"}
         => /\ ~timer.isActive
            /\ ~timer'.isActive
            /\ timer'.seconds = timer.seconds
            /\ timer'.minutes =
                 IF lastAction'.name = "AddMinute" THEN timer.minutes + 1
                 ELSE IF timer.minutes = 0 THEN 0
                 ELSE timer.minutes - 1]_vars
  /\ [][(timer.isActive /\ timer'.minutes # timer.minutes)
         => lastAction'.name = "Tick"]_vars

\* -M was pressed at 00:00
C38_Witness ==
  /\ lastAction.name = "SubMinute"
  /\ timer.minutes = 0
  /\ ~timer.isActive

Remaining(t) == 60 * t.minutes + t.seconds

\* C39: while the Timer is active with time remaining each tick takes
\* exactly one second off (59 seconds follow 0 seconds as a minute goes);
\* an active timer eventually becomes inactive, and it does so only by the
\* Stop button or at 00:00; started at 00:00 it is made inactive again with
\* no tick; a stop keeps the remaining time.
C39_TimerCountsDown ==
  /\ [][lastAction'.name = "Tick"
         => /\ timer.isActive /\ Remaining(timer) > 0
            /\ Remaining(timer') = Remaining(timer) - 1
            /\ timer.seconds = 0
                 => timer'.seconds = 59 /\ timer'.minutes = timer.minutes - 1]_vars
  /\ timer.isActive ~> ~timer.isActive
  /\ [][(timer.isActive /\ ~timer'.isActive)
         => \/ lastAction'.name = "Toggle"
            \/ lastAction'.name = "TimerEffect" /\ Remaining(timer) = 0]_vars
  /\ [][(timer.isActive /\ Remaining(timer) = 0) => lastAction'.name # "Tick"]_vars
  /\ [][lastAction'.name = "Toggle" => Remaining(timer') = Remaining(timer)]_vars

\* the last tick of a count brought the timer, still active, to 00:00
C39_Witness ==
  /\ lastAction.name = "Tick"
  /\ timer.isActive
  /\ Remaining(timer) = 0
====
